---------------------------- MODULE Spec2Model ----------------------------
(***************************************************************************)
(* Model of trust_fund_flask.py: the Donor and Distribution tables, the    *)
(* request handlers index, donate, distribute and get_stats, and the       *)
(* float arithmetic the handlers do on amounts.                            *)
(*                                                                         *)
(* Amounts are Python floats.  A finite amount is modelled by an integer   *)
(* (a float on which +, - and > are exact); the three special values that  *)
(* float() also parses ("inf", "-inf", "nan") are modelled as such.        *)
(***************************************************************************)
EXTENDS Integers, Sequences, FiniteSets, TLC

VARIABLES
    donors,         \* rows of table Donor, in insertion order
    distributions,  \* rows of table Distribution, in insertion order
    inflight,       \* per request slot: a POST /distribute between its reads and its commit
    resp            \* the response of the request handled last

vars == <<donors, distributions, inflight, resp>>

(***************************************************************************)
(* Bounds of the model.                                                    *)
(***************************************************************************)
\* Rows in the two tables together, counting those about to be committed.
MaxRows == 3
\* Rows in table Donor.
MaxDonors == 1

\* app.run() serves requests on threads.  Two request slots may run POST
\* /distribute at once; the other handlers touch the database once and take
\* one step.
Requests == {"r1", "r2"}

\* Requests in flight, each about to add a row.
InFlight == {r \in Requests : inflight[r].pc = "commit"}

\* Rows stored or about to be.
Rows == Len(donors) + Len(distributions) + Cardinality(InFlight)

(***************************************************************************)
(* Python values.                                                          *)
(***************************************************************************)
\* A key that the submitted form does not hold.
Missing == "<missing>"
\* Python's None.
None == "<None>"

Fin(n) == [k |-> "fin", v |-> n]
PosInf == [k |-> "inf", v |-> 1]
NegInf == [k |-> "inf", v |-> -1]
NaN == [k |-> "nan", v |-> 0]

\* a + b on floats
FAdd(a, b) ==
    IF a.k = "nan" \/ b.k = "nan" THEN NaN
    ELSE IF a.k = "inf" /\ b.k = "inf" THEN (IF a.v = b.v THEN a ELSE NaN)
    ELSE IF a.k = "inf" THEN a
    ELSE IF b.k = "inf" THEN b
    ELSE Fin(a.v + b.v)

FNeg(a) == IF a.k = "nan" THEN NaN ELSE [k |-> a.k, v |-> 0 - a.v]

\* a - b on floats
FSub(a, b) == FAdd(a, FNeg(b))

\* a > b on floats: every comparison with nan is False
FGt(a, b) ==
    IF a.k = "nan" \/ b.k = "nan" THEN FALSE
    ELSE IF a.k = "inf" THEN (a.v = 1 /\ ~(b.k = "inf" /\ b.v = 1))
    ELSE IF b.k = "inf" THEN b.v = -1
    ELSE a.v > b.v

\* bool(x) of a float: only 0.0 is falsy (nan and the infinities are truthy)
FloatTruthy(a) == a # Fin(0)

\* bool(s) of a form value: None and the empty string are falsy
StrTruthy(s) == s # None /\ s # ""

\* sum(d.amount for d in rows): left to right from 0
RECURSIVE PySumFrom(_, _, _)
PySumFrom(rows, i, acc) ==
    IF i > Len(rows) THEN acc
    ELSE PySumFrom(rows, i + 1, FAdd(acc, rows[i].amount))

PySum(rows) == PySumFrom(rows, 1, Fin(0))

\* The decimal strings of the finite amounts submitted.
FiniteInputs == {"-1", "0", "1"}

\* Whether float(s) returns (it raises ValueError otherwise).
CanFloat(s) == s \in FiniteInputs \cup {"inf", "-inf", "nan"}

\* float(s), for a string float() accepts
ToFloat(s) ==
    IF s = "inf" THEN PosInf
    ELSE IF s = "-inf" THEN NegInf
    ELSE IF s = "nan" THEN NaN
    ELSE IF s = "-1" THEN Fin(-1)
    ELSE IF s = "0" THEN Fin(0)
    ELSE Fin(1)

\* form.get(field, default)
get_form_data(form, field, default) ==
    IF form[field] = Missing THEN default ELSE form[field]

(***************************************************************************)
(* Submitted forms.  A field is a string or Missing.  The forms submitted   *)
(* are a complete form with at most one field changed; a POST /distribute  *)
(* form may carry any amount besides.                                      *)
(***************************************************************************)
AmountInputs == FiniteInputs \cup {"inf", "-inf", "nan", "abc", Missing}

\* A complete POST /donate form.
DonateBase ==
    [name |-> "n", email |-> "e", amount |-> "1", category |-> "food",
     payment_method |-> Missing, message |-> Missing]

DonateForms ==
    {[DonateBase EXCEPT !.name = v] : v \in {Missing, "", "n"}}
        \cup {[DonateBase EXCEPT !.email = v] : v \in {Missing, "e"}}
        \cup {[DonateBase EXCEPT !.amount = v] : v \in AmountInputs}
        \cup {[DonateBase EXCEPT !.category = v] : v \in {Missing, "food", "other"}}
        \cup {[DonateBase EXCEPT !.payment_method = v] :
                 v \in {Missing, "card", "netbanking"}}

\* A complete POST /distribute form.
DistributeBase ==
    [beneficiary_name |-> "b", amount |-> "1", category |-> "food",
     purpose |-> "p", payment_mode |-> Missing]

DistributeVariants ==
    {[DistributeBase EXCEPT !.beneficiary_name = v] : v \in {Missing, "", "b"}}
        \cup {[DistributeBase EXCEPT !.category = v] : v \in {Missing, "food", "other"}}
        \cup {[DistributeBase EXCEPT !.purpose = v] : v \in {Missing, "p"}}

DistributeForms ==
    {[f EXCEPT !.amount = v] : f \in DistributeVariants, v \in AmountInputs}

\* Every combination of the field values above.
AllDistributeForms ==
    [beneficiary_name : {Missing, "", "b"},
     amount : AmountInputs,
     category : {Missing, "food", "other"},
     purpose : {Missing, "p"},
     payment_mode : {Missing}]

(***************************************************************************)
(* The store.                                                              *)
(***************************************************************************)
\* The five keys of index()'s categories dict.
Categories == {"education", "healthcare", "food", "shelter", "emergency"}

\* A Donor built as already paid.
DonorPaid(name, email, amount, category, payment_method, message) ==
    [name |-> name, email |-> email, amount |-> amount, category |-> category,
     payment_method |-> payment_method, payment_status |-> "completed",
     message |-> message]

\* Donor(name=..., ...): payment_status is left to the column default.  (The
\* date column, set at insertion, is kept as the row's place in the table.)
Donor(name, email, amount, category, payment_method, message) ==
    [name |-> name, email |-> email, amount |-> amount, category |-> category,
     payment_method |-> payment_method, payment_status |-> "pending",
     message |-> message]

\* Distribution(beneficiary_name=..., ..., status=...)
Distribution(beneficiary_name, amount, category, purpose, payment_mode, status) ==
    [beneficiary_name |-> beneficiary_name, amount |-> amount,
     category |-> category, purpose |-> purpose, payment_mode |-> payment_mode,
     status |-> status]

\* The amount columns are nullable=False and SQLite binds a nan as NULL: the
\* INSERT of a row whose amount is nan raises IntegrityError.
InsertRaises(row) == row.amount = NaN

\* The row written over the newest row of the table instead of after it.
InsertOver(table, row) ==
    IF table = <<>> THEN <<[id |-> 1] @@ row>>
    ELSE [table EXCEPT ![Len(table)] = [id |-> Len(table)] @@ row]

\* db.session.add(row); db.session.commit(): the row gets the next id.
Insert(table, row) ==
    Append(table, [id |-> Len(table) + 1] @@ row)

\* Model.query.filter_by(payment_status='completed') / filter_by(status='completed')
CompletedDonors(ds) == SelectSeq(ds, LAMBDA d : d.payment_status = "completed")
CompletedDistributions(ts) == SelectSeq(ts, LAMBDA t : t.status = "completed")

\* order_by(text('date DESC')): date is the time of insertion, so newest first
RECURSIVE OrderByDateDesc(_)
OrderByDateDesc(rows) ==
    IF rows = <<>> THEN <<>>
    ELSE Append(OrderByDateDesc(Tail(rows)), Head(rows))

(***************************************************************************)
(* Responses.                                                              *)
(***************************************************************************)
NoFlash == [category |-> "", message |-> "", args |-> <<>>]
\* A response that carries no data.
NoBody == [empty |-> TRUE]

Redirect(route, target, flash) ==
    [route |-> route, kind |-> "redirect", target |-> target, flash |-> flash,
     body |-> NoBody]

Render(route, template, body) ==
    [route |-> route, kind |-> "render", target |-> template, flash |-> NoFlash,
     body |-> body]

Jsonify(route, body) ==
    [route |-> route, kind |-> "json", target |-> "", flash |-> NoFlash,
     body |-> body]

\* flash(message, category); args are the values formatted into the message
FlashArgs(message, category, args) ==
    [category |-> category, message |-> message, args |-> args]

Flash(message, category) == FlashArgs(message, category, <<>>)

(***************************************************************************)
(* GET /                                                                   *)
(***************************************************************************)
\* The categories dict before the two loops.
EmptyCategories ==
    [c \in Categories |-> [donations |-> Fin(0), distributions |-> Fin(0)]]

\* The second loop copied from the first with its key left as 'donations'.
AccumulateDonations(categories, row, key) ==
    IF row.category \in DOMAIN categories
    THEN [categories EXCEPT ![row.category]["donations"] = FAdd(@, row.amount)]
    ELSE categories

\* if row.category in categories: categories[row.category][key] += row.amount
Accumulate(categories, row, key) ==
    IF row.category \in DOMAIN categories
    THEN [categories EXCEPT ![row.category][key] = FAdd(@, row.amount)]
    ELSE categories

\* for row in rows: Accumulate
RECURSIVE AccumulateAll(_, _, _, _)
AccumulateAll(categories, rows, i, key) ==
    IF i > Len(rows) THEN categories
    ELSE AccumulateAll(Accumulate(categories, rows[i], key), rows, i + 1, key)

\* The template context index() builds from the two tables.
index(ds, ts) ==
    LET donations == OrderByDateDesc(ds)
        dists == OrderByDateDesc(ts)
        total_donations == PySum(donations)
        total_distributions == PySum(dists)
        balance == FSub(total_donations, total_distributions)
        categories ==
            AccumulateAll(AccumulateAll(EmptyCategories, donations, 1, "donations"),
                          dists, 1, "distributions")
    IN  [donations |-> donations, distributions |-> dists,
         total_donations |-> total_donations,
         total_distributions |-> total_distributions,
         balance |-> balance, categories |-> categories]

Index ==
    /\ resp' = Render("/", "index.html", index(donors, distributions))
    /\ UNCHANGED <<donors, distributions, inflight>>

(***************************************************************************)
(* GET /api/stats                                                          *)
(***************************************************************************)
get_stats(ds, ts) ==
    LET total_donations == PySum(CompletedDonors(ds))
        total_distributions == PySum(CompletedDistributions(ts))
    IN  [total_donations |-> total_donations,
         total_distributions |-> total_distributions,
         balance |-> FSub(total_donations, total_distributions)]

GetStats ==
    /\ resp' = Jsonify("/api/stats", get_stats(donors, distributions))
    /\ UNCHANGED <<donors, distributions, inflight>>

(***************************************************************************)
(* /donate                                                                 *)
(***************************************************************************)
GetDonate ==
    /\ resp' = Render("/donate", "donate.html", NoBody)
    /\ UNCHANGED <<donors, distributions, inflight>>

\* The completeness check with a positivity check on the amount.
DonorCompletePositive(donor) ==
    /\ StrTruthy(donor.name)
    /\ StrTruthy(donor.email)
    /\ FGt(donor.amount, Fin(0))
    /\ StrTruthy(donor.category)

\* all([donor.name, donor.email, donor.amount, donor.category])
DonorComplete(donor) ==
    /\ StrTruthy(donor.name)
    /\ StrTruthy(donor.email)
    /\ FloatTruthy(donor.amount)
    /\ StrTruthy(donor.category)

\* The flash of the simulated payment step.
PaymentFlash(payment_method) ==
    IF payment_method = "upi"
    THEN Flash("Please complete your UPI payment using the QR code.", "info")
    ELSE IF payment_method = "card"
    THEN Flash("You will be redirected to the secure payment gateway.", "info")
    ELSE Flash("Please complete your payment using net banking.", "info")

DonateError == Flash("Error processing donation", "error")
RequiredFields == Flash("Please fill in all required fields", "error")

\* POST /donate: the rows it adds to Donor and its response.
donate(form) ==
    IF ~CanFloat(get_form_data(form, "amount", "0"))
    THEN [add |-> <<>>, resp |-> Redirect("/donate", "donate", DonateError)]
    ELSE
        LET donor == Donor(get_form_data(form, "name", None),
                           get_form_data(form, "email", None),
                           ToFloat(get_form_data(form, "amount", "0")),
                           get_form_data(form, "category", None),
                           get_form_data(form, "payment_method", "upi"),
                           get_form_data(form, "message", ""))
        IN  IF ~DonorComplete(donor)
            THEN [add |-> <<>>, resp |-> Redirect("/donate", "donate", RequiredFields)]
            ELSE IF InsertRaises(donor)
            THEN [add |-> <<>>, resp |-> Redirect("/donate", "donate", DonateError)]
            ELSE [add |-> <<donor>>,
                  resp |-> Redirect("/donate", "index", PaymentFlash(donor.payment_method))]

DonatePost(form) ==
    /\ Rows < MaxRows
    /\ Len(donors) < MaxDonors
    /\ LET r == donate(form)
       IN  /\ donors' = (IF r.add = <<>> THEN donors ELSE Insert(donors, r.add[1]))
           /\ resp' = r.resp
    /\ UNCHANGED <<distributions, inflight>>

(***************************************************************************)
(* /distribute                                                             *)
(***************************************************************************)
GetDistribute ==
    /\ resp' = Render("/distribute", "distribute.html", NoBody)
    /\ UNCHANGED <<donors, distributions, inflight>>

\* current_balance, from the completed rows of the two tables
CurrentBalance(ds, ts) ==
    LET total_donations == PySum(CompletedDonors(ds))
        total_distributions == PySum(CompletedDistributions(ts))
    IN  FSub(total_donations, total_distributions)

\* The guard written with >= : an amount equal to the balance is turned away.
ExceedsOrEqual(distribution_amount, current_balance) ==
    FGt(distribution_amount, current_balance)
        \/ (distribution_amount.k # "nan" /\ distribution_amount = current_balance)

\* The guard left out.
ExceedsNever(distribution_amount, current_balance) == FALSE

\* if distribution_amount > current_balance
Exceeds(distribution_amount, current_balance) ==
    FGt(distribution_amount, current_balance)

\* The status argument left out: the row gets the column default.
RecordedStatusDefault == "pending"

\* The status POST /distribute gives the row it builds.
RecordedStatus == "completed"

\* all([distribution.beneficiary_name, distribution.amount,
\*      distribution.category, distribution.purpose])
DistributionComplete(distribution) ==
    /\ StrTruthy(distribution.beneficiary_name)
    /\ FloatTruthy(distribution.amount)
    /\ StrTruthy(distribution.category)
    /\ StrTruthy(distribution.purpose)

DistributeError == Flash("Error recording distribution", "error")
DistributeSuccess == Flash("Distribution recorded successfully!", "success")
ExceedsFlash(distribution_amount, current_balance) ==
    FlashArgs("Distribution amount exceeds available balance", "error",
              <<distribution_amount, current_balance>>)

\* POST /distribute up to the commit: the row it is about to add (if any), the
\* balance it read and, when it ends here, its response.
distribute_check(form, ds, ts) ==
    IF ~CanFloat(get_form_data(form, "amount", "0"))
    THEN [add |-> <<>>, current_balance |-> Fin(0),
          resp |-> Redirect("/distribute", "distribute", DistributeError)]
    ELSE
        LET distribution_amount == ToFloat(get_form_data(form, "amount", "0"))
            current_balance == CurrentBalance(ds, ts)
            distribution ==
                Distribution(get_form_data(form, "beneficiary_name", None),
                             distribution_amount,
                             get_form_data(form, "category", None),
                             get_form_data(form, "purpose", None),
                             get_form_data(form, "payment_mode", "cash"),
                             RecordedStatus)
        IN  IF Exceeds(distribution_amount, current_balance)
            THEN [add |-> <<>>, current_balance |-> current_balance,
                  resp |-> Redirect("/distribute", "distribute",
                                    ExceedsFlash(distribution_amount, current_balance))]
            ELSE IF ~DistributionComplete(distribution)
            THEN [add |-> <<>>, current_balance |-> current_balance,
                  resp |-> Redirect("/distribute", "distribute", RequiredFields)]
            ELSE [add |-> <<distribution>>, current_balance |-> current_balance,
                  resp |-> Redirect("/distribute", "index", DistributeSuccess)]

\* The row left in the table by a commit that raises.
distribute_commit_partial(ts, distribution) ==
    [table |-> Insert(ts, distribution),
     resp |-> IF InsertRaises(distribution)
              THEN Redirect("/distribute", "distribute", DistributeError)
              ELSE Redirect("/distribute", "index", DistributeSuccess)]

\* db.session.add(distribution); db.session.commit() and the response after it
distribute_commit(ts, distribution) ==
    IF InsertRaises(distribution)
    THEN [table |-> ts, resp |-> Redirect("/distribute", "distribute", DistributeError)]
    ELSE [table |-> Insert(ts, distribution),
          resp |-> Redirect("/distribute", "index", DistributeSuccess)]

Idle == [pc |-> "idle"]

\* A request reads the tables and checks its form; it answers at once or goes on
\* to its commit.  The two queries are taken in one step: what the first one
\* returns, the completed Donor rows, is changed by no handler (POST /donate
\* adds 'pending' rows only), so it returns the same rows at the time of the
\* second.
DistributeBegin(r, form) ==
    /\ inflight[r].pc = "idle"
    /\ Rows < MaxRows
    /\ LET c == distribute_check(form, donors, distributions)
       IN  IF c.add = <<>>
           THEN /\ resp' = c.resp
                /\ UNCHANGED inflight
           ELSE /\ inflight' = [inflight EXCEPT ![r] =
                        [pc |-> "commit", distribution |-> c.add[1],
                         current_balance |-> c.current_balance]]
                /\ UNCHANGED resp
    /\ UNCHANGED <<donors, distributions>>

\* The request commits the row it built from what it read.
DistributeCommit(r) ==
    /\ inflight[r].pc = "commit"
    /\ LET w == distribute_commit(distributions, inflight[r].distribution)
       IN  /\ distributions' = w.table
           /\ resp' = w.resp
    /\ inflight' = [inflight EXCEPT ![r] = Idle]
    /\ UNCHANGED donors

\* POST /distribute with nothing between its reads and its commit.
DistributeAtomic(form) ==
    /\ Rows < MaxRows
    /\ LET c == distribute_check(form, donors, distributions)
       IN  IF c.add = <<>>
           THEN /\ resp' = c.resp
                /\ UNCHANGED distributions
           ELSE LET w == distribute_commit(distributions, c.add[1])
                IN  /\ distributions' = w.table
                    /\ resp' = w.resp
    /\ UNCHANGED <<donors, inflight>>

(***************************************************************************)
(* Specifications.                                                         *)
(***************************************************************************)
\* Before the first request (GET /: nothing has been answered yet).
NoResponse == [route |-> "", kind |-> "", target |-> "", flash |-> NoFlash,
               body |-> NoBody]

\* db.create_all() on a new database: both tables empty.
Init ==
    /\ donors = <<>>
    /\ distributions = <<>>
    /\ inflight = [r \in Requests |-> Idle]
    /\ resp = NoResponse

\* Requests served concurrently: a POST /distribute takes two steps.
Next ==
    \/ Index
    \/ GetStats
    \/ GetDonate
    \/ GetDistribute
    \/ \E form \in DonateForms : DonatePost(form)
    \/ \E r \in Requests, form \in DistributeForms : DistributeBegin(r, form)
    \/ \E r \in Requests : DistributeCommit(r)

Spec == Init /\ [][Next]_vars

\* Requests served one at a time.
NextAtomic ==
    \/ Index
    \/ GetStats
    \/ GetDonate
    \/ GetDistribute
    \/ \E form \in DonateForms : DonatePost(form)
    \/ \E form \in DistributeForms : DistributeAtomic(form)

SpecAtomic == Init /\ [][NextAtomic]_vars

(***************************************************************************)
(* The handlers on a database that already holds rows, among them rows     *)
(* whose status was set outside the application.                           *)
(***************************************************************************)
StoredDonors ==
    [id : {1}, name : {"n"}, email : {"e"}, amount : {Fin(1), Fin(2)},
     category : {"education", "other"}, payment_method : {"upi"},
     payment_status : {"pending", "completed"}, message : {""}]

StoredDistributions ==
    [id : {1}, beneficiary_name : {"b"}, amount : {Fin(1)},
     category : {"education", "other"}, purpose : {"p"},
     payment_mode : {"cash"}, status : {"pending", "completed"}]

InitStore ==
    /\ donors \in {<<>>} \cup {<<d>> : d \in StoredDonors}
    /\ distributions \in {<<>>} \cup {<<t>> : t \in StoredDistributions}
    /\ inflight = [r \in Requests |-> Idle]
    /\ resp = NoResponse

NextStore ==
    \/ Index
    \/ GetStats
    \/ \E form \in DistributeForms : DistributeAtomic(form)

SpecStore == InitStore /\ [][NextStore]_vars

(***************************************************************************)
(* What the claims speak of, stated apart from the handlers' own code.     *)
(***************************************************************************)
\* The sum of the amounts of rows, by recursion on the tail.
RECURSIVE SumAmounts(_)
SumAmounts(rows) ==
    IF rows = <<>> THEN Fin(0)
    ELSE FAdd(Head(rows).amount, SumAmounts(Tail(rows)))

\* (sum of completed donations) - (sum of completed distributions)
CompletedBalanceOf(ds, ts) ==
    FSub(SumAmounts(SelectSeq(ds, LAMBDA d : d.payment_status = "completed")),
         SumAmounts(SelectSeq(ts, LAMBDA t : t.status = "completed")))

CompletedBalance == CompletedBalanceOf(donors, distributions)

\* a >= b on floats
FGe(a, b) == FGt(a, b) \/ (a.k # "nan" /\ a = b)

\* The completed-only balance is negative.
OverdrawnIn(ds, ts) == FGt(Fin(0), CompletedBalanceOf(ds, ts))

Overdrawn == OverdrawnIn(donors, distributions)

IsError(response) == response.flash.category = "error"

GuardRejected(response) ==
    response.flash.message = "Distribution amount exceeds available balance"

\* The form holds the field and it is not empty.
Filled(form, field) == form[field] \notin {Missing, ""}

IsPrefix(s, t) == Len(s) <= Len(t) /\ SubSeq(t, 1, Len(s)) = s

\* C1: POST /distribute is rejected by the guard exactly when the amount it
\* proposes is greater than the completed-only balance of the store; an amount
\* equal to the balance passes the guard.
C1_GuardRejectsIffExceeds ==
    \A form \in AllDistributeForms :
        LET raw == get_form_data(form, "amount", "0")
        IN  GuardRejected(distribute_check(form, donors, distributions).resp)
                <=> (CanFloat(raw) /\ FGt(ToFloat(raw), CompletedBalance))

\* A distribution equal to a positive balance was just accepted: the balance
\* is now zero.
C1_Witness ==
    /\ resp.flash = DistributeSuccess
    /\ distributions # <<>>
    /\ distributions[Len(distributions)].amount = Fin(1)
    /\ CompletedBalance = Fin(0)

\* C2: with the balance read and the write of POST /distribute in separate
\* steps, the fund can be overdrawn, and a step that overdraws it is always the
\* commit of a request whose balance was read before another write: the balance
\* it checked is no longer the balance of the store.  (Only a write to
\* Distribution lowers the balance: Donor rows are added, never removed.)
C2_OverdrawnOnlyByStaleCommit ==
    [][(/\ distributions' # distributions
        /\ ~OverdrawnIn(donors, distributions)
        /\ OverdrawnIn(donors', distributions')) =>
         \E r \in Requests :
            /\ inflight[r].pc = "commit"
            /\ inflight'[r] = Idle
            /\ inflight[r].current_balance # CurrentBalance(donors, distributions)]_vars

\* Both of the last two distributions pass the guard against the balance that
\* stood before either was written, both are stored, and the fund is overdrawn.
C2_Witness ==
    /\ Overdrawn
    /\ Len(distributions) >= 2
    /\ LET n == Len(distributions)
           before == CurrentBalance(donors, SubSeq(distributions, 1, n - 2))
       IN  /\ ~Exceeds(distributions[n - 1].amount, before)
           /\ ~Exceeds(distributions[n].amount, before)

\* C3: a step that answers with an error (a required field missing or empty, an
\* amount float() does not parse, the guard's rejection, an INSERT the store
\* refuses) leaves both tables as they were.
C3_ErrorLeavesStore ==
    [][IsError(resp') => (donors' = donors /\ distributions' = distributions)]_vars

\* An error was answered on a store that holds rows of both tables.
C3_Witness ==
    /\ IsError(resp)
    /\ donors # <<>>
    /\ distributions # <<>>

\* C4: no Donor row is 'completed', so the total_donations of the guard and of
\* GET /api/stats is 0 whatever has been donated.
C4_NoCompletedDonation ==
    /\ \A i \in 1..Len(donors) : donors[i].payment_status = "pending"
    /\ get_stats(donors, distributions).total_donations = Fin(0)
    /\ CurrentBalance(donors, distributions)
          = FSub(Fin(0), PySum(CompletedDistributions(distributions)))

\* GET /api/stats answered 0 donations on a store that holds a donation.
C4_Witness ==
    /\ donors # <<>>
    /\ resp.route = "/api/stats"
    /\ resp.body.total_donations = Fin(0)

\* C5: in the context of GET /, the bucket of each of the five categories holds
\* the sums of the donations and of the distributions of that category, rows of
\* any other category are in no bucket but are in the totals, and the balance
\* is the difference of the totals.
C5_IndexSums ==
    LET v == index(donors, distributions)
    IN  /\ DOMAIN v.categories = Categories
        /\ \A c \in Categories :
              /\ v.categories[c].donations
                    = SumAmounts(SelectSeq(donors, LAMBDA d : d.category = c))
              /\ v.categories[c].distributions
                    = SumAmounts(SelectSeq(distributions, LAMBDA t : t.category = c))
        /\ v.total_donations = SumAmounts(donors)
        /\ v.total_distributions = SumAmounts(distributions)
        /\ v.balance = FSub(v.total_donations, v.total_distributions)

\* GET / was answered on a store with a donation of no known category and a
\* distribution of a known one.
C5_Witness ==
    /\ resp.route = "/"
    /\ resp.body = index(donors, distributions)
    /\ \E i \in 1..Len(donors) : donors[i].category \notin Categories
    /\ \E i \in 1..Len(distributions) : distributions[i].category \in Categories

\* C6: every stored Distribution has a positive amount.
C6_PositiveAmounts ==
    \A i \in 1..Len(distributions) : FGt(distributions[i].amount, Fin(0))

\* The form has name, email and category filled in and an amount float() parses.
C7_Submitted(form) ==
    /\ Filled(form, "name") /\ Filled(form, "email") /\ Filled(form, "category")
    /\ form.amount # Missing /\ CanFloat(form.amount)

\* C7 as claimed: POST /donate with name, email and category filled in and any
\* amount float() parses adds one pending Donor of that amount.  (Every answer
\* of POST /donate has route /donate; no other step is looked at.)
C7_AnyNumericAmountStored ==
    [][resp'.route = "/donate" =>
         \A form \in DonateForms :
            (C7_Submitted(form) /\ DonatePost(form))
            => /\ Len(donors') = Len(donors) + 1
               /\ donors'[Len(donors')].amount = ToFloat(form.amount)
               /\ donors'[Len(donors')].payment_status = "pending"]_vars

\* C7 as amended: POST /donate with name, email and category filled in and an
\* amount float() parses to a value other than zero and nan adds exactly one
\* Donor, of that amount and 'pending', and changes no other row.
C7_NonzeroAmountStored ==
    [][resp'.route = "/donate" =>
         \A form \in DonateForms :
            (/\ C7_Submitted(form)
             /\ ToFloat(form.amount) \notin {Fin(0), NaN}
             /\ DonatePost(form))
            => /\ Len(donors') = Len(donors) + 1
               /\ IsPrefix(donors, donors')
               /\ donors'[Len(donors')].amount = ToFloat(form.amount)
               /\ donors'[Len(donors')].payment_status = "pending"
               /\ donors'[Len(donors')].name = form.name
               /\ donors'[Len(donors')].email = form.email
               /\ donors'[Len(donors')].category = form.category
               /\ distributions' = distributions]_vars

\* A donation of a negative amount was stored as 'pending'.
C7_Witness ==
    /\ resp.route = "/donate"
    /\ resp.target = "index"
    /\ donors # <<>>
    /\ donors[Len(donors)].amount = Fin(-1)
    /\ donors[Len(donors)].payment_status = "pending"

\* C8: every stored Distribution is 'completed', so the total of all
\* distributions that GET / shows is the completed-only total of GET /api/stats.
C8_AllDistributionsCompleted ==
    /\ \A i \in 1..Len(distributions) : distributions[i].status = "completed"
    /\ index(donors, distributions).total_distributions
          = get_stats(donors, distributions).total_distributions

\* GET /api/stats answered a total other than zero over several distributions.
C8_Witness ==
    /\ Len(distributions) >= 2
    /\ resp.route = "/api/stats"
    /\ resp.body.total_distributions # Fin(0)
    /\ resp.body.total_distributions = index(donors, distributions).total_distributions

\* C9: every step keeps each stored row as it is and adds at most one row;
\* POST /donate leaves Distribution alone, POST /distribute leaves Donor alone,
\* and the GET handlers leave both alone.  (The last three are stated from the
\* table that changed: a step that changes Distribution is no step of POST
\* /donate, and so on.)
C9_AppendOnly ==
    [][/\ IsPrefix(donors, donors')
       /\ IsPrefix(distributions, distributions')
       /\ Len(donors') + Len(distributions') <= Len(donors) + Len(distributions) + 1
       /\ distributions' # distributions
             => ~(\E form \in DonateForms : DonatePost(form))
       /\ donors' # donors
             => ~(\/ \E r \in Requests, form \in DistributeForms : DistributeBegin(r, form)
                  \/ \E r \in Requests : DistributeCommit(r))
       /\ (donors' # donors \/ distributions' # distributions)
             => ~(Index \/ GetStats \/ GetDonate \/ GetDistribute)]_vars

\* Rows were added to both tables, Distribution more than once.
C9_Witness ==
    /\ donors # <<>>
    /\ Len(distributions) >= 2
    /\ resp.flash = DistributeSuccess

\* C10: with POST /distribute in one step, the completed-only balance is >= 0.
C10_AtomicBalanceNonNegative == FGe(CompletedBalance, Fin(0))

\* With POST /distribute in one step, the balance is never negative: it is
\* >= 0, or nan once amounts of both infinities are stored.
AtomicNeverNegative == ~Overdrawn

\* With POST /distribute in one step and only finite amounts stored, the
\* balance is >= 0.
AtomicFiniteNonNegative ==
    (\A i \in 1..Len(distributions) : distributions[i].amount.k = "fin")
        => FGe(CompletedBalance, Fin(0))

=============================================================================
